---- MODULE Spec2Model ----
(***************************************************************************)
(* A model of the school-name reconciliation pipeline of                   *)
(* Fairfax_County/preprocess/html-processing/ollama_data_merger.py:        *)
(* the name normalizer, the fuzzy matcher, the resolver-response parser,   *)
(* the batched resolver loop, the mapping combiner, the left join and the  *)
(* two-dataset driver.                                                     *)
(*                                                                         *)
(* A Python str is a sequence of one-character strings.  A value that may  *)
(* be None/NaN is a record [none, val].  A dict is a function whose        *)
(* DOMAIN is its key set.                                                  *)
(***************************************************************************)
EXTENDS Integers, Sequences, FiniteSets, TLC

VARIABLES
    name, normalized, norm_pc,                        \* normalizer call
    csv_names, excel_names, threshold, matches, fuzz_pc,  \* fuzzy matcher call
    text, extracted, ext_pc,                          \* extract_json_dict call
    unknown_names, batch, answers, gnm_result, gnm_pc,  \* get_name_mapping call
    tiers, combined, comb_pc,                         \* the combining expression
    excel_file,                                       \* the shared target file
    pc, ds, all_mappings, cached_mapping, log,        \* main
    frame                                             \* the locals of its process_dataset call

normVars == <<name, normalized, norm_pc>>
fuzzVars == <<csv_names, excel_names, threshold, matches, fuzz_pc>>
extVars == <<text, extracted, ext_pc>>
mainVars == <<excel_file, pc, ds, all_mappings, cached_mapping, log, frame>>
gnmVars == <<unknown_names, batch, answers, gnm_result, gnm_pc>>
combVars == <<tiers, combined, comb_pc>>
vars == <<normVars, fuzzVars, extVars, gnmVars, combVars, mainVars>>

----------------------------------------------------------------------------
(* Values *)

None == [none |-> TRUE, val |-> <<>>]
Some(v) == [none |-> FALSE, val |-> v]

\* Python truthiness of an optional string: None and "" are both falsy.
Truthy(o) == ~o.none /\ o.val # <<>>

EmptyDict == [k \in {} |-> <<>>]

\* d.update(e) / {**d, **e}: the keys of e are (re)bound to e's values.
DictUpdate(d, e) ==
    [k \in (DOMAIN d) \cup (DOMAIN e) |-> IF k \in DOMAIN e THEN e[k] ELSE d[k]]

RECURSIVE Flatten(_)
Flatten(ss) == IF ss = <<>> THEN <<>> ELSE Head(ss) \o Flatten(Tail(ss))

\* All sequences of at most n elements of S.
SeqsUpTo(S, n) == UNION {[1..k -> S] : k \in 0..n}

----------------------------------------------------------------------------
(* Characters *)

UpperCase == <<"A", "B", "C", "D", "E", "F", "G", "H", "I", "J", "K", "L", "M",
               "N", "O", "P", "Q", "R", "S", "T", "U", "V", "W", "X", "Y", "Z">>
LowerCase == <<"a", "b", "c", "d", "e", "f", "g", "h", "i", "j", "k", "l", "m",
               "n", "o", "p", "q", "r", "s", "t", "u", "v", "w", "x", "y", "z">>
Digits == {"0", "1", "2", "3", "4", "5", "6", "7", "8", "9"}

Range(f) == {f[k] : k \in DOMAIN f}

UpperChars == Range(UpperCase)

\* \w of Python's re on the characters used here.
WordChars == UpperChars \cup Range(LowerCase) \cup Digits \cup {"_"}
\* \s of Python's re, and what str.strip() strips.
SpaceChars == {" ", "\t", "\n", "\r", "\f"}

LowerChar(c) ==
    IF c \in UpperChars
    THEN LowerCase[CHOOSE k \in DOMAIN UpperCase : UpperCase[k] = c]
    ELSE c

\* str.lower()
Lower(s) == [k \in DOMAIN s |-> LowerChar(s[k])]

RECURSIVE LStrip(_)
LStrip(s) == IF s # <<>> /\ Head(s) \in SpaceChars THEN LStrip(Tail(s)) ELSE s

RECURSIVE RStrip(_)
RStrip(s) ==
    IF s # <<>> /\ s[Len(s)] \in SpaceChars THEN RStrip(SubSeq(s, 1, Len(s) - 1)) ELSE s

\* str.strip()
Strip(s) == RStrip(LStrip(s))

StartsWith(s, p) == Len(p) <= Len(s) /\ SubSeq(s, 1, Len(p)) = p

\* str.replace(old, new): left to right, non-overlapping; old is never empty here.
RECURSIVE Replace(_, _, _)
Replace(s, old, new) ==
    IF Len(s) < Len(old) THEN s
    ELSE IF StartsWith(s, old)
         THEN new \o Replace(SubSeq(s, Len(old) + 1, Len(s)), old, new)
         ELSE <<Head(s)>> \o Replace(Tail(s), old, new)

----------------------------------------------------------------------------
(* normalize_school_name *)

\* The replacements dict, in its insertion order.
replacements == <<
    << <<" ", "e", "l", "e", "m", "e", "n", "t", "a", "r", "y", " ", "s", "c", "h", "o", "o", "l">>,
       <<" ", "e", "s">> >>,
    << <<" ", "m", "i", "d", "d", "l", "e", " ", "s", "c", "h", "o", "o", "l">>,
       <<" ", "m", "s">> >>,
    << <<" ", "h", "i", "g", "h", " ", "s", "c", "h", "o", "o", "l">>,
       <<" ", "h", "s">> >>,
    << <<" ", "s", "e", "c", "o", "n", "d", "a", "r", "y", " ", "s", "c", "h", "o", "o", "l">>,
       <<" ", "s", "s">> >>,
    << <<" ", "e", "l", "e", "m", "e", "n", "t", "a", "r", "y">>,
       <<" ", "e", "s">> >>,
    << <<" ", "m", "i", "d", "d", "l", "e">>,
       <<" ", "m", "s">> >>,
    << <<" ", "h", "i", "g", "h">>,
       <<" ", "h", "s">> >>,
    << <<" ", "s", "e", "c", "o", "n", "d", "a", "r", "y">>,
       <<" ", "s", "s">> >>,
    << <<" ", "s", "c", "h", "o", "o", "l">>,
       <<>> >>,
    << <<" ", "c", "e", "n", "t", "e", "r">>,
       <<" ", "c", "t", "r">> >>,
    << <<" ", "c", "e", "n", "t", "r", "e">>,
       <<" ", "c", "t", "r">> >>,
    << <<" ", "a", "c", "a", "d", "e", "m", "y">>,
       <<" ", "a", "c", "a", "d">> >>,
    << <<" ", "a", "l", "t", "e", "r", "n", "a", "t", "i", "v", "e">>,
       <<" ", "a", "l", "t">> >>,
    << <<" ", "i", "n", "t", "e", "r", "n", "a", "t", "i", "o", "n", "a", "l">>,
       <<" ", "i", "n", "t", "l">> >>,
    << <<" ", "m", "a", "g", "n", "e", "t">>,
       <<" ", "m", "a", "g">> >>,
    << <<" ", "c", "h", "a", "r", "t", "e", "r">>,
       <<" ", "c", "h", "t", "r">> >>,
    << <<" ", "c", "a", "m", "p", "u", "s">>,
       <<>> >>,
    << <<" ", "f", "a", "c", "i", "l", "i", "t", "y">>,
       <<>> >>,
    << <<" ", "p", "r", "o", "g", "r", "a", "m">>,
       <<>> >> >>

\* for old, new in replacements.items(): name = name.replace(old, new)
RECURSIVE ApplyReplacements(_, _)
ApplyReplacements(s, k) ==
    IF k > Len(replacements) THEN s
    ELSE ApplyReplacements(Replace(s, replacements[k][1], replacements[k][2]), k + 1)

\* re.sub(r'[^\w\s]', '', name)
KeptChars == WordChars \cup SpaceChars
RemovePunctuation(s) == SelectSeq(s, LAMBDA c : c \in KeptChars)

\* re.sub(r'\s+', ' ', name): every maximal run of whitespace becomes one space.
RECURSIVE NormalizeWhitespace(_)
NormalizeWhitespace(s) ==
    IF s = <<>> THEN <<>>
    ELSE IF Head(s) \in SpaceChars
         THEN <<" ">> \o NormalizeWhitespace(LStrip(s))
         ELSE <<Head(s)>> \o NormalizeWhitespace(Tail(s))

\* pd.isna(name)
isna(o) == o.none

normalize_school_name(o) ==
    IF isna(o) THEN <<>>
    ELSE LET lowered == Strip(Lower(o.val))
             replaced == ApplyReplacements(lowered, 1)
             nopunct == RemovePunctuation(replaced)
             spaced == NormalizeWhitespace(nopunct)
         IN  Strip(spaced)

----------------------------------------------------------------------------
(* difflib.SequenceMatcher(None, a, b).ratio(), without junk (isjunk is     *)
(* None, and the popularity heuristic needs 200 characters)                 *)

\* Length of the common run of a and b starting at a[i], b[j], inside
\* a[..ahi] and b[..bhi].
RECURSIVE RunLen(_, _, _, _, _, _)
RunLen(a, b, i, j, ahi, bhi) ==
    IF i > ahi \/ j > bhi \/ a[i] # b[j] THEN 0
    ELSE 1 + RunLen(a, b, i + 1, j + 1, ahi, bhi)

\* find_longest_match: the longest matching block of a[alo..ahi] and
\* b[blo..bhi]; of the longest, the one starting earliest in a, and of those
\* the one starting earliest in b.
find_longest_match(a, b, alo, ahi, blo, bhi) ==
    LET starts == (alo..ahi) \X (blo..bhi)
        size(p) == RunLen(a, b, p[1], p[2], ahi, bhi)
        bestsize == IF starts = {} THEN 0
                    ELSE CHOOSE k \in {size(p) : p \in starts} :
                             \A p \in starts : size(p) <= k
    IN  IF bestsize = 0 THEN [i |-> alo, j |-> blo, k |-> 0]
        ELSE LET besti == CHOOSE i \in alo..ahi :
                              /\ \E j \in blo..bhi : size(<<i, j>>) = bestsize
                              /\ \A i2 \in alo..(i - 1) :
                                     \A j \in blo..bhi : size(<<i2, j>>) # bestsize
                 bestj == CHOOSE j \in blo..bhi :
                              /\ size(<<besti, j>>) = bestsize
                              /\ \A j2 \in blo..(j - 1) : size(<<besti, j2>>) # bestsize
             IN  [i |-> besti, j |-> bestj, k |-> bestsize]

\* get_matching_blocks, summed: the longest block, then the same to its left
\* and to its right.
RECURSIVE MatchedChars(_, _, _, _, _, _)
MatchedChars(a, b, alo, ahi, blo, bhi) ==
    IF alo > ahi \/ blo > bhi THEN 0
    ELSE LET m == find_longest_match(a, b, alo, ahi, blo, bhi)
         IN  IF m.k = 0 THEN 0
             ELSE m.k + MatchedChars(a, b, alo, m.i - 1, blo, m.j - 1)
                      + MatchedChars(a, b, m.i + m.k, ahi, m.j + m.k, bhi)

\* ratio(): 2.0 * matches / length, and 1.0 when both strings are empty.
\* A score is the fraction num/den, den > 0.
ratio(a, b) ==
    IF Len(a) + Len(b) = 0 THEN [num |-> 1, den |-> 1]
    ELSE [num |-> 2 * MatchedChars(a, b, 1, Len(a), 1, Len(b)), den |-> Len(a) + Len(b)]

Greater(x, y) == x.num * y.den > y.num * x.den
GreaterEq(x, y) == x.num * y.den >= y.num * x.den

----------------------------------------------------------------------------
(* fuzzy_match_schools *)

\* The inner loop over excel_names from index k on, for one csv_name.
RECURSIVE BestMatch(_, _, _, _, _, _)
BestMatch(csv_name, excels, k, best_match, best_score, thr) ==
    IF k > Len(excels) THEN [best_match |-> best_match, best_score |-> best_score]
    ELSE LET score == ratio(csv_name, excels[k])
         IN  IF Greater(score, best_score) /\ GreaterEq(score, thr)
             THEN BestMatch(csv_name, excels, k + 1, Some(excels[k]), score, thr)
             ELSE BestMatch(csv_name, excels, k + 1, best_match, best_score, thr)

\* The outer loop over csv_names from index k on.
RECURSIVE FuzzyLoop(_, _, _, _, _)
FuzzyLoop(csvs, excels, thr, k, acc) ==
    IF k > Len(csvs) THEN acc
    ELSE LET b == BestMatch(csvs[k], excels, 1, None, [num |-> 0, den |-> 1], thr)
         IN  IF Truthy(b.best_match)
             THEN FuzzyLoop(csvs, excels, thr, k + 1,
                            DictUpdate(acc, csvs[k] :> b.best_match.val))
             ELSE FuzzyLoop(csvs, excels, thr, k + 1, acc)

fuzzy_match_schools(csvs, excels, thr) == FuzzyLoop(csvs, excels, thr, 1, EmptyDict)

\* threshold=0.8
DefaultThreshold == [num |-> 4, den |-> 5]

----------------------------------------------------------------------------
(* json.loads, as a validator: Python's json decoder (strict strings) on    *)
(* one document.  A parser takes the index it starts at and gives the index *)
(* after what it parsed, or 0 where the decoder raises JSONDecodeError.     *)

JsonWs == {" ", "\t", "\n", "\r"}
ControlChars == {"\t", "\n", "\r", "\f"}
HexDigits == Digits \cup {"a", "b", "c", "d", "e", "f", "A", "B", "C", "D", "E", "F"}
\* The keys of json.decoder.BACKSLASH.
SimpleEscapes == {"\"", "\\", "/", "b", "f", "n", "r", "t"}

RECURSIVE SkipWs(_, _)
SkipWs(s, i) == IF i <= Len(s) /\ s[i] \in JsonWs THEN SkipWs(s, i + 1) ELSE i

HasAt(s, i, lit) == i + Len(lit) - 1 <= Len(s) /\ SubSeq(s, i, i + Len(lit) - 1) = lit

\* scanstring from the index after the opening quote.
RECURSIVE scanstring(_, _)
scanstring(s, i) ==
    IF i > Len(s) THEN 0
    ELSE IF s[i] = "\"" THEN i + 1
    ELSE IF s[i] = "\\"
         THEN IF i + 1 > Len(s) THEN 0
              ELSE IF s[i + 1] \in SimpleEscapes THEN scanstring(s, i + 2)
              ELSE IF s[i + 1] = "u" /\ i + 5 <= Len(s)
                      /\ \A k \in (i + 2)..(i + 5) : s[k] \in HexDigits
                   THEN scanstring(s, i + 6)
              ELSE 0
    ELSE IF s[i] \in ControlChars THEN 0
    ELSE scanstring(s, i + 1)

RECURSIVE SkipDigits(_, _)
SkipDigits(s, i) == IF i <= Len(s) /\ s[i] \in Digits THEN SkipDigits(s, i + 1) ELSE i

\* NUMBER_RE: (-?(?:0|[1-9]\d*))(\.\d+)?([eE][-+]?\d+)?
match_number(s, i) ==
    LET d == IF i <= Len(s) /\ s[i] = "-" THEN i + 1 ELSE i
        int == IF d > Len(s) \/ s[d] \notin Digits THEN 0
               ELSE IF s[d] = "0" THEN d + 1 ELSE SkipDigits(s, d)
        frac == IF int # 0 /\ int + 1 <= Len(s) /\ s[int] = "." /\ s[int + 1] \in Digits
                THEN SkipDigits(s, int + 1) ELSE int
        sgn == IF frac # 0 /\ frac + 1 <= Len(s) /\ s[frac] \in {"e", "E"}
                  /\ s[frac + 1] \in {"-", "+"}
               THEN frac + 2 ELSE frac + 1
        exp == IF frac # 0 /\ frac <= Len(s) /\ s[frac] \in {"e", "E"}
                  /\ sgn <= Len(s) /\ s[sgn] \in Digits
               THEN SkipDigits(s, sgn) ELSE frac
    IN  exp

RECURSIVE scan_once(_, _), JSONObject(_, _), ObjectMember(_, _), JSONArray(_, _),
          ArrayItem(_, _)

\* The scanner's _scan_once at index i.
scan_once(s, i) ==
    IF i > Len(s) THEN 0
    ELSE IF s[i] = "\"" THEN scanstring(s, i + 1)
    ELSE IF s[i] = "{" THEN JSONObject(s, i + 1)
    ELSE IF s[i] = "[" THEN JSONArray(s, i + 1)
    ELSE IF HasAt(s, i, <<"n", "u", "l", "l">>) THEN i + 4
    ELSE IF HasAt(s, i, <<"t", "r", "u", "e">>) THEN i + 4
    ELSE IF HasAt(s, i, <<"f", "a", "l", "s", "e">>) THEN i + 5
    ELSE IF match_number(s, i) # 0 THEN match_number(s, i)
    ELSE IF HasAt(s, i, <<"N", "a", "N">>) THEN i + 3
    ELSE IF HasAt(s, i, <<"I", "n", "f", "i", "n", "i", "t", "y">>) THEN i + 8
    ELSE IF HasAt(s, i, <<"-", "I", "n", "f", "i", "n", "i", "t", "y">>) THEN i + 9
    ELSE 0

\* JSONObject from the index after "{".
JSONObject(s, i) ==
    LET j == SkipWs(s, i)
    IN  IF j > Len(s) THEN 0
        ELSE IF s[j] = "}" THEN j + 1
        ELSE IF s[j] = "\"" THEN ObjectMember(s, j + 1)
        ELSE 0

\* One "key": value pair, from the index after the key's opening quote, and
\* the pairs after it.
ObjectMember(s, i) ==
    LET keyEnd == scanstring(s, i)
        colon == SkipWs(s, keyEnd)
        valEnd == scan_once(s, SkipWs(s, colon + 1))
        next == SkipWs(s, valEnd)
        key2 == SkipWs(s, next + 1)
    IN  IF keyEnd = 0 THEN 0
        ELSE IF colon > Len(s) \/ s[colon] # ":" THEN 0
        ELSE IF valEnd = 0 THEN 0
        ELSE IF next > Len(s) THEN 0
        ELSE IF s[next] = "}" THEN next + 1
        ELSE IF s[next] # "," THEN 0
        ELSE IF key2 > Len(s) \/ s[key2] # "\"" THEN 0
        ELSE ObjectMember(s, key2 + 1)

\* JSONArray from the index after "[".
JSONArray(s, i) ==
    LET j == SkipWs(s, i)
    IN  IF j > Len(s) THEN 0
        ELSE IF s[j] = "]" THEN j + 1
        ELSE ArrayItem(s, j)

ArrayItem(s, i) ==
    LET valEnd == scan_once(s, i)
        next == SkipWs(s, valEnd)
    IN  IF valEnd = 0 THEN 0
        ELSE IF next > Len(s) THEN 0
        ELSE IF s[next] = "]" THEN next + 1
        ELSE IF s[next] # "," THEN 0
        ELSE ArrayItem(s, SkipWs(s, next + 1))

\* json.loads(s) returns (TRUE) or raises (FALSE): one value, then only
\* whitespace.
json_loads_ok(s) ==
    LET end == scan_once(s, SkipWs(s, 1))
    IN  end # 0 /\ SkipWs(s, end) = Len(s) + 1

----------------------------------------------------------------------------
(* extract_json_dict *)

\* text.find(ch): the first index of ch, 0 when there is none.
Find(s, ch) ==
    IF \E i \in DOMAIN s : s[i] = ch
    THEN CHOOSE i \in DOMAIN s : s[i] = ch /\ \A k \in 1..(i - 1) : s[k] # ch
    ELSE 0

Raised == [raised |-> TRUE, val |-> <<>>]
Returned(v) == [raised |-> FALSE, val |-> v]

\* The for loop from index i on, with the loop's three locals.
RECURSIVE ScanBraces(_, _, _, _, _, _)
ScanBraces(s, start, i, brace_count, in_str, escape) ==
    IF i > Len(s) THEN Raised
    ELSE IF s[i] = "\"" /\ ~escape
         THEN ScanBraces(s, start, i + 1, brace_count, ~in_str, FALSE)
    ELSE IF s[i] = "\\" /\ ~escape
         THEN ScanBraces(s, start, i + 1, brace_count, in_str, TRUE)
    ELSE IF ~in_str /\ s[i] = "{"
         THEN ScanBraces(s, start, i + 1, brace_count + 1, in_str, FALSE)
    ELSE IF ~in_str /\ s[i] = "}"
         THEN IF brace_count - 1 = 0
              THEN IF json_loads_ok(SubSeq(s, start, i))
                   THEN Returned(SubSeq(s, start, i))
                   ELSE Raised
              ELSE ScanBraces(s, start, i + 1, brace_count - 1, in_str, FALSE)
    ELSE ScanBraces(s, start, i + 1, brace_count, in_str, FALSE)

\* The earlier version of the parser: from the first "{" to the first "}"
\* after it, whatever lies between.
extract_first_braces(s) ==
    LET start == Find(s, "{")
        close == IF start = 0 THEN 0 ELSE Find(SubSeq(s, start, Len(s)), "}")
    IN  IF start = 0 \/ close = 0 THEN Raised
        ELSE Returned(SubSeq(s, start, start + close - 1))

extract_json_dict(s) ==
    LET start == Find(s, "{")
    IN  IF start = 0 THEN Raised ELSE ScanBraces(s, start, start, 0, FALSE, FALSE)

----------------------------------------------------------------------------
(* get_name_mapping.  The resolver is outside the program: its answer to    *)
(* the k-th request is oracle[k], one of                                    *)
(*   call_raises  query_ollama raises (no connection, no 'response' key),   *)
(*   unparsable   extract_json_dict or json.loads raises on the response,   *)
(*   mapping      the response parses to the dict in field mapping.         *)

CallRaises == [kind |-> "call_raises", mapping |-> EmptyDict]
Unparsable == [kind |-> "unparsable", mapping |-> EmptyDict]
Parsed(d) == [kind |-> "mapping", mapping |-> d]

Min(a, b) == IF a <= b THEN a ELSE b

\* The for loop from offset i (0-based, as range(0, len, batch_size) counts)
\* with k - 1 requests already sent.
RECURSIVE GnmLoop(_, _, _, _, _, _, _)
GnmLoop(names, batch_size, oracle, i, k, mapping, requests) ==
    IF i >= Len(names)
    THEN [raised |-> FALSE, mapping |-> mapping, requests |-> requests]
    ELSE LET chunk == SubSeq(names, i + 1, Min(i + batch_size, Len(names)))
             sent == Append(requests, chunk)
         IN  IF oracle[k].kind = "call_raises"
             THEN [raised |-> TRUE, mapping |-> mapping, requests |-> sent]
             ELSE IF oracle[k].kind = "unparsable"
             THEN GnmLoop(names, batch_size, oracle, i + batch_size, k + 1, mapping, sent)
             ELSE GnmLoop(names, batch_size, oracle, i + batch_size, k + 1,
                          DictUpdate(mapping, oracle[k].mapping), sent)

\* The loop leaving at the first response that does not parse, instead of
\* going on to the next chunk.
RECURSIVE GnmLoopBreaks(_, _, _, _, _, _, _)
GnmLoopBreaks(names, batch_size, oracle, i, k, mapping, requests) ==
    IF i >= Len(names)
    THEN [raised |-> FALSE, mapping |-> mapping, requests |-> requests]
    ELSE LET chunk == SubSeq(names, i + 1, Min(i + batch_size, Len(names)))
             sent == Append(requests, chunk)
         IN  IF oracle[k].kind = "call_raises"
             THEN [raised |-> TRUE, mapping |-> mapping, requests |-> sent]
             ELSE IF oracle[k].kind = "unparsable"
             THEN [raised |-> FALSE, mapping |-> mapping, requests |-> sent]
             ELSE GnmLoopBreaks(names, batch_size, oracle, i + batch_size, k + 1,
                                DictUpdate(mapping, oracle[k].mapping), sent)

get_name_mapping_breaks(known_names, names, batch_size, oracle) ==
    GnmLoopBreaks(names, batch_size, oracle, 0, 1, EmptyDict, <<>>)

\* known_names only enters the prompt. The result holds the returned mapping,
\* whether an exception left the function instead, and the chunks requested.
get_name_mapping(known_names, names, batch_size, oracle) ==
    GnmLoop(names, batch_size, oracle, 0, 1, EmptyDict, <<>>)

\* batch_size=15
DefaultBatchSize == 15

----------------------------------------------------------------------------
(* process_dataset *)

\* A table is a sequence of rows; a row holds its school-name cell, which may
\* be missing (NaN).
Row(o) == [School_Name |-> o]

test_schools == {
    <<"T", "e", "s", "t", " ", "S", "i", "t", "e", " ", "E", "l", "e", "m", "e", "n", "t", "a", "r", "y", " ", "S", "c", "h", "o", "o", "l">>,
    <<"T", "e", "s", "t", " ", "S", "i", "t", "e", " ", "E", "l", "e", "m", "e", "n", "t", "a", "r", "y">>,
    <<"t", "e", "s", "t", " ", "s", "i", "t", "e", " ", "e", "l", "e", "m", "e", "n", "t", "a", "r", "y", " ", "s", "c", "h", "o", "o", "l">> }

\* csv_df[~csv_df['School_Name'].isin(test_schools)]
FilterTestSchools(df) ==
    SelectSeq(df, LAMBDA r : r.School_Name.none \/ r.School_Name.val \notin test_schools)

\* .str.strip() keeps a missing value missing.
StrStrip(o) == IF o.none THEN None ELSE Some(Strip(o.val))

\* A column read with no string in it and at least one missing value is a
\* float column, and .str raises AttributeError on it.
HasStrAccessor(df) == df = <<>> \/ \E k \in DOMAIN df : ~df[k].School_Name.none

\* The Normalized_School_Name column.
RECURSIVE NormalizedColumn(_)
NormalizedColumn(df) ==
    IF df = <<>> THEN <<>>
    ELSE <<normalize_school_name(StrStrip(Head(df).School_Name))>> \o NormalizedColumn(Tail(df))

\* Code-point order of the characters a normalized name can hold.
CodeOrder == <<" ", "0", "1", "2", "3", "4", "5", "6", "7", "8", "9", "_">> \o LowerCase
CodePoint(c) == CHOOSE k \in DOMAIN CodeOrder : CodeOrder[k] = c

\* a < b for str
RECURSIVE StrLess(_, _)
StrLess(a, b) ==
    IF b = <<>> THEN FALSE
    ELSE IF a = <<>> THEN TRUE
    ELSE IF Head(a) = Head(b) THEN StrLess(Tail(a), Tail(b))
    ELSE CodePoint(Head(a)) < CodePoint(Head(b))

\* sorted(column.unique())
RECURSIVE SortedSet(_)
SortedSet(S) ==
    IF S = {} THEN <<>>
    ELSE LET least == CHOOSE x \in S : \A y \in S \ {x} : StrLess(x, y)
         IN  <<least>> \o SortedSet(S \ {least})

SortedUnique(col) == SortedSet(Range(col))

\* A JSON null among the values of a resolver answer; it is no name.
JsonNull == <<"null">>

\* The three mappings unpacked in the opposite order: the cache wins.
combine_mappings_reversed(cached, fuzzy, ollama) ==
    DictUpdate(DictUpdate(ollama, fuzzy), cached)

\* {**cached_matches, **fuzzy_matches, **ollama_mapping}
combine_mappings(cached, fuzzy, ollama) == DictUpdate(DictUpdate(cached, fuzzy), ollama)

\* {name: cached_mapping[name] for name in csv_names if name in cached_mapping},
\* and {} when cached_mapping is None or empty.
CachedMatches(names, cache) ==
    IF cache.none \/ DOMAIN cache.val = {} THEN EmptyDict
    ELSE [n \in Range(names) \cap DOMAIN cache.val |-> cache.val[n]]

\* The list taken whole, the names already resolved not left out.
NotFiltered(names, mapping) == names

\* [name for name in names if name not in mapping]
NotIn(names, mapping) == SelectSeq(names, LAMBDA n : n \notin DOMAIN mapping)

\* .map(final_mapping) then .fillna(Normalized_School_Name)
RECURSIVE MappedColumn(_, _)
MappedColumn(col, final_mapping) ==
    IF col = <<>> THEN <<>>
    ELSE <<IF Head(col) \in DOMAIN final_mapping /\ final_mapping[Head(col)] # JsonNull
           THEN final_mapping[Head(col)] ELSE Head(col)>>
         \o MappedColumn(Tail(col), final_mapping)

\* The right rows whose key equals key, in the right table's order.
RECURSIVE RightMatches(_, _, _)
RightMatches(rightKeys, key, j) ==
    IF j > Len(rightKeys) THEN <<>>
    ELSE IF rightKeys[j] = key
         THEN <<j>> \o RightMatches(rightKeys, key, j + 1)
         ELSE RightMatches(rightKeys, key, j + 1)

\* DataFrame.merge(how='left'): for each left row, in order, one output row
\* per right row with an equal key, or one row with no right row (right = 0).
RECURSIVE LeftMerge(_, _, _)
LeftMerge(leftKeys, rightKeys, i) ==
    IF i > Len(leftKeys) THEN <<>>
    ELSE LET js == RightMatches(rightKeys, leftKeys[i], 1)
             rows == IF js = <<>> THEN <<[left |-> i, right |-> 0]>>
                     ELSE [k \in DOMAIN js |-> [left |-> i, right |-> js[k]]]
         IN  rows \o LeftMerge(leftKeys, rightKeys, i + 1)

Unreadable == [raised |-> TRUE, df |-> <<>>]
Loaded(df) == [raised |-> FALSE, df |-> df]

NoFrame == [
    csv_df |-> <<>>, excel_df |-> <<>>, csv_norm |-> <<>>, excel_norm |-> <<>>,
    csv_names |-> <<>>, excel_names |-> <<>>,
    cached_matches |-> EmptyDict, unmatched_names |-> <<>>, fuzzy_matches |-> EmptyDict,
    still_unmatched |-> <<>>, requests |-> <<>>, ollama_mapping |-> EmptyDict,
    final_mapping |-> EmptyDict, merged |-> <<>> ]

\* The locals once the cache and the fuzzy matcher have been consulted.
\* csv_norm and excel_norm are the two Normalized_School_Name columns.
CachedAndFuzzy(csv_df, excel_df, csv_norm, excel_norm, names, known, cached_matches) ==
    LET unmatched_names == NotIn(names, cached_matches)
        fuzzy_matches == fuzzy_match_schools(unmatched_names, known, DefaultThreshold)
    IN  [NoFrame EXCEPT
            !.csv_df = csv_df, !.excel_df = excel_df,
            !.csv_norm = csv_norm, !.excel_norm = excel_norm,
            !.csv_names = names, !.excel_names = known,
            !.cached_matches = cached_matches,
            !.unmatched_names = unmatched_names, !.fuzzy_matches = fuzzy_matches,
            !.still_unmatched = NotIn(unmatched_names, fuzzy_matches)]

Normalized(csv_df, excel_df, csv_norm, excel_norm, cache) ==
    CachedAndFuzzy(csv_df, excel_df, csv_norm, excel_norm,
                   SortedUnique(csv_norm), SortedUnique(excel_norm),
                   CachedMatches(SortedUnique(csv_norm), cache))

\* The call up to the resolver tier: load, filter, normalize, cache and fuzzy
\* matching. csv and excel are what pd.read_csv and pd.read_excel give. The
\* result is the exception's origin ("" when none was raised) and the locals.
ResolveTiers(csv, excel, cache) ==
    IF csv.raised THEN [raised |-> "read_csv", frame |-> NoFrame]
    ELSE IF excel.raised THEN [raised |-> "read_excel", frame |-> NoFrame]
    ELSE IF ~HasStrAccessor(csv.df) \/ ~HasStrAccessor(excel.df)
    THEN [raised |-> "str_accessor", frame |-> NoFrame]
    ELSE [raised |-> "",
          frame |-> Normalized(FilterTestSchools(csv.df), excel.df,
                               NormalizedColumn(FilterTestSchools(csv.df)),
                               NormalizedColumn(excel.df), cache)]

\* The rest of the call, from the locals f: the resolver tier, the combined
\* mapping, the merge and the save. oracle is the resolver's answers, saved
\* whether merged.to_csv succeeds.
MergeAndSave(f, oracle, saved) ==
    LET resolved == IF f.still_unmatched # <<>>
                    THEN get_name_mapping(f.excel_names, f.still_unmatched,
                                          DefaultBatchSize, oracle)
                    ELSE [raised |-> FALSE, mapping |-> EmptyDict, requests |-> <<>>]
        final_mapping == combine_mappings(f.cached_matches, f.fuzzy_matches, resolved.mapping)
    IN  IF resolved.raised
        THEN [raised |-> "query_ollama",
              frame |-> [f EXCEPT !.requests = resolved.requests,
                                  !.ollama_mapping = resolved.mapping]]
        ELSE [raised |-> IF saved THEN "" ELSE "to_csv",
              frame |-> [f EXCEPT
                  !.requests = resolved.requests, !.ollama_mapping = resolved.mapping,
                  !.final_mapping = final_mapping,
                  !.merged = LeftMerge(MappedColumn(f.csv_norm, final_mapping),
                                       f.excel_norm, 1)]]

\* One call: the exception's origin ("" when the call returns) and the locals.
process_dataset(csv, excel, cache, oracle, saved) ==
    IF ResolveTiers(csv, excel, cache).raised # ""
    THEN ResolveTiers(csv, excel, cache)
    ELSE MergeAndSave(ResolveTiers(csv, excel, cache).frame, oracle, saved)

----------------------------------------------------------------------------
(* The normalizer applied to one raw name *)

MaxPieces == 3

\* Raw names are built from these pieces.
NamePieces == {
    <<"A">>, <<"b">>, <<" ">>, <<"\t">>, <<"-">>,
    <<"h", "i", "g", "h">>,
    <<"S", "c", "h", "o", "o", "l">>,
    <<"e", "s">> }

RawNames == {Flatten(ps) : ps \in SeqsUpTo(NamePieces, MaxPieces)}

NormIdle == name = None /\ normalized = None /\ norm_pc = "idle"

FuzzIdle ==
    /\ csv_names = <<>> /\ excel_names = <<>> /\ threshold = [num |-> 0, den |-> 1]
    /\ matches = EmptyDict /\ fuzz_pc = "idle"

datasets == <<"breakfast", "lunch">>

MainIdle ==
    /\ excel_file = Unreadable /\ pc = "idle" /\ ds = 0 /\ all_mappings = EmptyDict
    /\ cached_mapping = None /\ log = <<>> /\ frame = NoFrame

GnmIdle ==
    /\ unknown_names = <<>> /\ batch = 0 /\ answers = <<>>
    /\ gnm_result = [raised |-> FALSE, mapping |-> EmptyDict, requests |-> <<>>]
    /\ gnm_pc = "idle"

NoTiers == [cached |-> EmptyDict, fuzzy |-> EmptyDict, resolver |-> EmptyDict]

CombIdle == tiers = NoTiers /\ combined = EmptyDict /\ comb_pc = "idle"

ExtIdle == text = <<>> /\ extracted = [raised |-> FALSE, val |-> <<>>] /\ ext_pc = "idle"

NormInit ==
    /\ FuzzIdle /\ ExtIdle /\ GnmIdle /\ CombIdle /\ MainIdle
    /\ name \in {None} \cup {Some(s) : s \in RawNames}
    /\ normalized = None
    /\ norm_pc = "call"

NormalizeSchoolName ==
    /\ norm_pc = "call"
    /\ normalized' = Some(normalize_school_name(name))
    /\ norm_pc' = "done"
    /\ UNCHANGED <<name, fuzzVars, extVars, gnmVars, combVars, mainVars>>

NormNext == NormalizeSchoolName

SpecNorm == NormInit /\ [][NormNext]_vars

\* C2: normalizing an already-normalized key returns it unchanged:
\* normalize_school_name(normalize_school_name(x)) = normalize_school_name(x).
NormalizerIdempotent ==
    norm_pc = "done" => normalize_school_name(normalized) = normalized.val

----------------------------------------------------------------------------
(* The fuzzy matcher applied to lists of names *)

MaxNameLen == 2
MaxCsvNames == 1
MaxExcelNames == 2

FuzzNames == SeqsUpTo({"a", "b"}, MaxNameLen)

Thresholds == {DefaultThreshold, [num |-> 1, den |-> 1], [num |-> 1, den |-> 2],
               [num |-> 0, den |-> 1]}

FuzzInit ==
    /\ NormIdle /\ ExtIdle /\ GnmIdle /\ CombIdle /\ MainIdle
    /\ csv_names \in SeqsUpTo(FuzzNames, MaxCsvNames)
    /\ excel_names \in SeqsUpTo(FuzzNames, MaxExcelNames)
    /\ threshold \in Thresholds
    /\ matches = EmptyDict
    /\ fuzz_pc = "call"

FuzzyMatchSchools ==
    /\ fuzz_pc = "call"
    /\ matches' = fuzzy_match_schools(csv_names, excel_names, threshold)
    /\ fuzz_pc' = "done"
    /\ UNCHANGED <<csv_names, excel_names, threshold, normVars, extVars, gnmVars, combVars, mainVars>>

FuzzNext == FuzzyMatchSchools

SpecFuzz == FuzzInit /\ [][FuzzNext]_vars

\* The greatest similarity ratio of s to a target name, and the first target
\* name that has it.
IsMaxRatio(s, k) ==
    \A k2 \in DOMAIN excel_names :
        GreaterEq(ratio(s, excel_names[k]), ratio(s, excel_names[k2]))
FirstMax(s) ==
    CHOOSE k \in DOMAIN excel_names :
        IsMaxRatio(s, k) /\ \A k2 \in 1..(k - 1) : ~IsMaxRatio(s, k2)

\* C3: every source name s is mapped to the first-encountered target name of
\* maximum similarity ratio exactly when that maximum is >= threshold, and is
\* omitted from the result when no target reaches the threshold.
FuzzySelectionRule ==
    fuzz_pc = "done" =>
        \A i \in DOMAIN csv_names :
            LET s == csv_names[i]
                reached == /\ excel_names # <<>>
                           /\ GreaterEq(ratio(s, excel_names[FirstMax(s)]), threshold)
            IN  IF reached
                THEN s \in DOMAIN matches /\ matches[s] = excel_names[FirstMax(s)]
                ELSE s \notin DOMAIN matches

\* C4: with threshold <= 1.0, a source name that also occurs among the target
\* names always has an entry in the result.
IdenticalStringsMatch ==
    (fuzz_pc = "done" /\ GreaterEq([num |-> 1, den |-> 1], threshold)) =>
        \A i \in DOMAIN csv_names :
            (\E k \in DOMAIN excel_names : excel_names[k] = csv_names[i])
                => csv_names[i] \in DOMAIN matches

----------------------------------------------------------------------------
(* extract_json_dict applied to a resolver response *)

MaxTokens == 6

\* Response texts are built from these tokens.
TextTokens == {
    <<"{">>, <<"}">>, <<"\"">>, <<"\\">>, <<"n">>,
    <<"{", "\"", "k", "\"", ":">> }

Texts == {Flatten(ts) : ts \in SeqsUpTo(TextTokens, MaxTokens)}

ExtInit ==
    /\ NormIdle /\ FuzzIdle /\ GnmIdle /\ CombIdle /\ MainIdle
    /\ text \in Texts
    /\ extracted = [raised |-> FALSE, val |-> <<>>]
    /\ ext_pc = "call"

ExtractJsonDict ==
    /\ ext_pc = "call"
    /\ extracted' = extract_json_dict(text)
    /\ ext_pc' = "done"
    /\ UNCHANGED <<text, normVars, fuzzVars, gnmVars, combVars, mainVars>>

ExtNext == ExtractJsonDict

SpecExt == ExtInit /\ [][ExtNext]_vars

\* text[start..end] is a well-formed object: it is what the JSON grammar
\* parses from the "{" at start, and end is the index of its closing "}".
IsObjectAt(s, start, end) ==
    /\ start >= 1 /\ end <= Len(s) /\ s[start] = "{"
    /\ JSONObject(s, start + 1) = end + 1

\* C7: when the first "{" of the text opens a well-formed object, the result
\* is exactly the substring from that "{" to its matching "}": braces inside
\* quoted strings (escaped quotes not ending the string) are not counted, and
\* nothing after the first return of the depth to zero is taken.
ExtractsOuterObject ==
    ext_pc = "done" =>
        \A end \in DOMAIN text :
            IsObjectAt(text, Find(text, "{"), end)
                => extracted = Returned(SubSeq(text, Find(text, "{"), end))

\* A response whose object has a string value holding a brace, and a further
\* brace after the object, has been parsed.
ExtractsOuterObjectWitness ==
    /\ ext_pc = "done"
    /\ text = <<"{", "\"", "k", "\"", ":", "\"", "}", "\"", "}", "}">>
    /\ extracted = Returned(<<"{", "\"", "k", "\"", ":", "\"", "}", "\"", "}">>)

----------------------------------------------------------------------------
(* The files and the resolver's answers *)

MaxCsvRows == 3
MaxExcelRows == 2
MaxAnswerKeys == 1

\* The tables a file may hold: the rows of a master table, some left out.
RECURSIVE Pick(_, _, _)
Pick(master, I, k) ==
    IF k > Len(master) THEN <<>>
    ELSE (IF k \in I THEN <<master[k]>> ELSE <<>>) \o Pick(master, I, k + 1)

Tables(master, n) ==
    {Pick(master, I, 1) : I \in {J \in SUBSET DOMAIN master : Cardinality(J) <= n}}

CsvMaster == <<
    Row(Some(<<"T", "e", "s", "t", " ", "S", "i", "t", "e", " ", "E", "l", "e", "m", "e", "n", "t", "a", "r", "y">>)),
    Row(Some(<<"A", " ", "H", "i", "g", "h">>)),
    Row(Some(<<"b">>)),
    Row(None) >>

ExcelMaster == <<
    Row(Some(<<"a", " ", "h", "s">>)),
    Row(Some(<<"A", " ", "H", "S">>)),
    Row(None) >>

CsvLoads == {Unreadable} \cup {Loaded(df) : df \in Tables(CsvMaster, MaxCsvRows)}
ExcelLoads == {Unreadable} \cup {Loaded(df) : df \in Tables(ExcelMaster, MaxExcelRows)}

\* What the resolver may answer: any dict of a few entries, its keys not
\* bound to the names it was asked about.
AnswerKeys == {<<>>, <<"b">>, <<"a", " ", "h", "s">>}
AnswerValues == {<<"a", " ", "h", "s">>, JsonNull}
Answers ==
    UNION {[K -> AnswerValues] : K \in {J \in SUBSET AnswerKeys : Cardinality(J) <= MaxAnswerKeys}}
Outcomes == {CallRaises, Unparsable} \cup {Parsed(d) : d \in Answers}

\* At most DefaultBatchSize names are unresolved here: one request per call.
Oracles == [1..1 -> Outcomes]

----------------------------------------------------------------------------
(* get_name_mapping applied to a list of names, on any answers *)

MaxUnknown == 3

UnknownNames == <<<<"a">>, <<"b">>, <<"c">>, <<"d">>, <<"e">>>>
BatchSizes == {1, 2, DefaultBatchSize}

ChunkKeys == {<<"a">>, <<"b">>}
ChunkValues == {<<"x">>, <<"y">>}
ChunkAnswers == UNION {[K -> ChunkValues] : K \in SUBSET ChunkKeys}
ChunkOutcomes == {CallRaises, Unparsable} \cup {Parsed(d) : d \in ChunkAnswers}

GnmInit ==
    /\ NormIdle /\ FuzzIdle /\ ExtIdle /\ CombIdle /\ MainIdle
    /\ \E n \in 0..Min(MaxUnknown, Len(UnknownNames)) :
        /\ unknown_names = SubSeq(UnknownNames, 1, n)
        /\ answers \in [1..n -> ChunkOutcomes]
    /\ batch \in BatchSizes
    /\ gnm_result = [raised |-> FALSE, mapping |-> EmptyDict, requests |-> <<>>]
    /\ gnm_pc = "call"

GetNameMapping ==
    /\ gnm_pc = "call"
    /\ gnm_result' = get_name_mapping(<<>>, unknown_names, batch, answers)
    /\ gnm_pc' = "done"
    /\ UNCHANGED <<unknown_names, batch, answers, normVars, fuzzVars, extVars, combVars, mainVars>>

GnmNext == GetNameMapping

SpecGnm == GnmInit /\ [][GnmNext]_vars

\* The chunks of unknown_names, batch names each, the last one shorter.
NumChunks == (Len(unknown_names) + batch - 1) \div batch
ChunkAt(k) == SubSeq(unknown_names, (k - 1) * batch + 1, Min(k * batch, Len(unknown_names)))
FirstChunks(n) == [k \in 1..n |-> ChunkAt(k)]

\* The chunks whose request was answered and whose answer parsed, and the
\* union of their mappings (of two chunks with the same key, the later one's
\* value).
Succeeded == {k \in 1..NumChunks : answers[k].kind = "mapping"}
LastWith(key) ==
    CHOOSE k \in Succeeded :
        /\ key \in DOMAIN answers[k].mapping
        /\ \A k2 \in Succeeded : key \in DOMAIN answers[k2].mapping => k2 <= k
UnionOfSucceeded ==
    [key \in UNION {DOMAIN answers[k].mapping : k \in Succeeded} |->
        answers[LastWith(key)].mapping[key]]

CallFailures == {k \in 1..NumChunks : answers[k].kind = "call_raises"}

\* C6: whatever the chunks' outcomes (resolver call or response parsing,
\* succeeding or failing), a failed chunk never aborts the run: every chunk is
\* requested, in order, and the returned mapping is the union of the mappings
\* of exactly the chunks that succeeded.
BestEffortContinuation ==
    gnm_pc = "done" =>
        /\ ~gnm_result.raised
        /\ gnm_result.requests = FirstChunks(NumChunks)
        /\ gnm_result.mapping = UnionOfSucceeded

\* C6, amended: a chunk whose response does not parse never aborts the run:
\* as long as every resolver call returns a response, every chunk is
\* requested, in order, and the returned mapping is the union of the mappings
\* of exactly the chunks that parsed. A resolver call that raises is not
\* caught: it leaves get_name_mapping, and no later chunk is requested.
ParseFailureContinuation ==
    gnm_pc = "done" =>
        IF CallFailures = {}
        THEN /\ ~gnm_result.raised
             /\ gnm_result.requests = FirstChunks(NumChunks)
             /\ gnm_result.mapping = UnionOfSucceeded
        ELSE /\ gnm_result.raised
             /\ \E k \in CallFailures :
                    /\ \A k2 \in CallFailures : k <= k2
                    /\ gnm_result.requests = FirstChunks(k)

\* A chunk failed to parse, a later chunk parsed, and its mapping is returned.
ParseFailureContinuationWitness ==
    /\ gnm_pc = "done"
    /\ NumChunks >= 2
    /\ answers[1].kind = "unparsable"
    /\ answers[2].kind = "mapping"
    /\ ~gnm_result.raised
    /\ gnm_result.mapping = answers[2].mapping
    /\ gnm_result.mapping # EmptyDict

----------------------------------------------------------------------------
(* The combining expression applied to any three mappings *)

TierKeys == {<<"a">>, <<"b">>}
TierValues == {<<"x">>, <<"y">>, <<"z">>}
TierDicts == UNION {[K -> TierValues] : K \in SUBSET TierKeys}

CombInit ==
    /\ NormIdle /\ FuzzIdle /\ ExtIdle /\ GnmIdle /\ MainIdle
    /\ tiers \in [cached : TierDicts, fuzzy : TierDicts, resolver : TierDicts]
    /\ combined = EmptyDict
    /\ comb_pc = "call"

CombineMappings ==
    /\ comb_pc = "call"
    /\ combined' = combine_mappings(tiers.cached, tiers.fuzzy, tiers.resolver)
    /\ comb_pc' = "done"
    /\ UNCHANGED <<tiers, normVars, fuzzVars, extVars, gnmVars, mainVars>>

CombNext == CombineMappings

SpecComb == CombInit /\ [][CombNext]_vars

ExampleTiers == [
    cached |-> (<<"a">> :> <<"x">>),
    fuzzy |-> (<<"a">> :> <<"y">> @@ <<"b">> :> <<"y">>),
    resolver |-> (<<"b">> :> <<"z">>) ]

\* C5: the combined mapping has the union of the three key sets as its keys
\* and, for each key, the value of the latest tier holding it in the order
\* cached < fuzzy < resolver; cached={a:x}, fuzzy={a:y,b:y}, resolver={b:z}
\* combine to {a:y,b:z}.
CombinerPrecedence ==
    comb_pc = "done" =>
        /\ DOMAIN combined =
               DOMAIN tiers.cached \cup DOMAIN tiers.fuzzy \cup DOMAIN tiers.resolver
        /\ \A k \in DOMAIN combined :
               combined[k] = IF k \in DOMAIN tiers.resolver THEN tiers.resolver[k]
                             ELSE IF k \in DOMAIN tiers.fuzzy THEN tiers.fuzzy[k]
                             ELSE tiers.cached[k]
        /\ tiers = ExampleTiers => combined = (<<"a">> :> <<"y">> @@ <<"b">> :> <<"z">>)

\* The example of the three colliding mappings has been combined.
CombinerPrecedenceWitness ==
    /\ comb_pc = "done"
    /\ tiers = ExampleTiers
    /\ combined = (<<"a">> :> <<"y">> @@ <<"b">> :> <<"z">>)

----------------------------------------------------------------------------
(* main: the two datasets, one after the other, against the shared target   *)
(* file.  A process_dataset call takes two steps: up to the fuzzy matches,  *)
(* and from the resolver's answer on.                                       *)

Init ==
    /\ NormIdle /\ FuzzIdle /\ ExtIdle /\ GnmIdle /\ CombIdle
    /\ excel_file \in ExcelLoads
    /\ pc = "loop"
    /\ ds = 1
    /\ all_mappings = EmptyDict
    /\ cached_mapping = None
    /\ log = [k \in DOMAIN datasets |-> "unvisited"]
    /\ frame = NoFrame

\* The handler leaving the loop (break) instead of continuing.
ExceptBreak(cause) ==
    /\ log' = [log EXCEPT ![ds] = cause]
    /\ ds' = Len(datasets) + 1
    /\ pc' = "loop"
    /\ UNCHANGED <<excel_file, all_mappings, cached_mapping>>

\* No handler: the exception leaves main.
ExceptPropagates(cause) ==
    /\ log' = [log EXCEPT ![ds] = cause]
    /\ ds' = ds
    /\ pc' = "aborted"
    /\ UNCHANGED <<excel_file, all_mappings, cached_mapping>>

\* except Exception as e: print the error; continue.
ExceptContinue(cause) ==
    /\ log' = [log EXCEPT ![ds] = cause]
    /\ ds' = ds + 1
    /\ pc' = "loop"
    /\ UNCHANGED <<excel_file, all_mappings, cached_mapping>>

\* os.path.exists(csv_path) is false: warn and continue.
SkipMissing ==
    /\ UNCHANGED <<normVars, fuzzVars, extVars, gnmVars, combVars>>
    /\ pc = "loop" /\ ds <= Len(datasets)
    /\ log' = [log EXCEPT ![ds] = "missing"]
    /\ ds' = ds + 1
    /\ UNCHANGED <<excel_file, pc, all_mappings, cached_mapping, frame>>

\* process_dataset is called and gets as far as the fuzzy matches.
LoadAndMatch ==
    /\ UNCHANGED <<normVars, fuzzVars, extVars, gnmVars, combVars>>
    /\ pc = "loop" /\ ds <= Len(datasets)
    /\ \E csv \in CsvLoads :
        /\ ResolveTiers(csv, excel_file, cached_mapping).raised = ""
        /\ frame' = ResolveTiers(csv, excel_file, cached_mapping).frame
    /\ pc' = "resolve"
    /\ UNCHANGED <<excel_file, ds, all_mappings, cached_mapping, log>>

\* process_dataset raises while loading or normalizing.
LoadRaises ==
    /\ UNCHANGED <<normVars, fuzzVars, extVars, gnmVars, combVars>>
    /\ pc = "loop" /\ ds <= Len(datasets)
    /\ \E csv \in CsvLoads :
        /\ ResolveTiers(csv, excel_file, cached_mapping).raised # ""
        /\ ExceptContinue(ResolveTiers(csv, excel_file, cached_mapping).raised)
    /\ frame' = NoFrame

\* process_dataset returns: the mapping is stored and becomes the cache.
MergeReturns ==
    /\ UNCHANGED <<normVars, fuzzVars, extVars, gnmVars, combVars>>
    /\ pc = "resolve"
    /\ \E oracle \in Oracles :
        /\ MergeAndSave(frame, oracle, TRUE).raised = ""
        /\ frame' = MergeAndSave(frame, oracle, TRUE).frame
    /\ all_mappings' = DictUpdate(all_mappings, datasets[ds] :> frame'.final_mapping)
    /\ cached_mapping' = Some(frame'.final_mapping)
    /\ log' = [log EXCEPT ![ds] = "ok"]
    /\ ds' = ds + 1
    /\ pc' = "loop"
    /\ UNCHANGED excel_file

\* process_dataset raises in the resolver request or while saving.
MergeRaises ==
    /\ UNCHANGED <<normVars, fuzzVars, extVars, gnmVars, combVars>>
    /\ pc = "resolve"
    /\ \E oracle \in Oracles, saved \in BOOLEAN :
        /\ MergeAndSave(frame, oracle, saved).raised # ""
        /\ frame' = MergeAndSave(frame, oracle, saved).frame
        /\ ExceptContinue(MergeAndSave(frame, oracle, saved).raised)

\* After the loop: the combined mapping is written when there is one, and
\* main returns; a failed write is not handled.
Finish ==
    /\ UNCHANGED <<normVars, fuzzVars, extVars, gnmVars, combVars>>
    /\ pc = "loop" /\ ds > Len(datasets)
    /\ \E written \in BOOLEAN :
        pc' = IF DOMAIN all_mappings # {} /\ ~written THEN "aborted" ELSE "done"
    /\ UNCHANGED <<excel_file, ds, all_mappings, cached_mapping, log, frame>>

Next ==
    \/ SkipMissing
    \/ LoadAndMatch
    \/ LoadRaises
    \/ MergeReturns
    \/ MergeRaises
    \/ Finish

Spec == Init /\ [][Next]_vars

----------------------------------------------------------------------------
(* Properties of main and of its process_dataset calls *)

RunEnded == pc \in {"done", "aborted"}

\* The locals are those of a call that has merged.
Merged == pc # "resolve" /\ ds > 1 /\ log[ds - 1] \in {"ok", "to_csv"}

\* C1: the left join yields exactly one merged row for each source row left
\* after the test-row filter, whether or not its mapped key matches a target
\* row.
MergeTotality ==
    Merged =>
        /\ Len(frame.merged) = Len(frame.csv_df)
        /\ \A i \in DOMAIN frame.csv_df :
               Cardinality({k \in DOMAIN frame.merged : frame.merged[k].left = i}) = 1

\* C8: whatever happens to a dataset (file missing, an exception, success),
\* the run visits every dataset, and ends with all_mappings holding an entry
\* for exactly the datasets whose processing completed without error.
DriverIsolation ==
    RunEnded =>
        /\ \A k \in DOMAIN datasets : log[k] # "unvisited"
        /\ DOMAIN all_mappings = {datasets[k] : k \in {j \in DOMAIN datasets : log[j] = "ok"}}

\* The first dataset raised, the second was processed, and only it has an entry.
DriverIsolationWitness ==
    /\ RunEnded
    /\ log[1] \in {"read_csv", "str_accessor", "query_ollama", "to_csv"}
    /\ log[2] = "ok"
    /\ DOMAIN all_mappings = {"lunch"}

\* C9: when the shared target table cannot be read, the failure aborts the
\* whole run: no further dataset is attempted and main does not reach its
\* normal completion; and nothing else aborts the run.
TargetFailureAborts ==
    /\ \A k \in DOMAIN datasets :
           log[k] = "read_excel" =>
               /\ pc # "done"
               /\ \A j \in DOMAIN datasets : j > k => log[j] = "unvisited"
    /\ pc = "aborted" => \E k \in DOMAIN datasets : log[k] = "read_excel"

\* C9, amended: when the shared target table cannot be read, the failure is
\* raised inside process_dataset and caught by the driver's handler like any
\* other exception of a dataset's processing: the dataset gets no mapping, the
\* next dataset is still attempted, and main reaches its normal completion
\* with no mapping stored. No exception raised inside process_dataset aborts
\* the run.
TargetFailureIsCaught ==
    /\ \A k \in DOMAIN datasets :
           log[k] = "read_excel" =>
               /\ excel_file.raised
               /\ pc # "aborted"
               /\ datasets[k] \notin DOMAIN all_mappings
    /\ excel_file.raised =>
           /\ all_mappings = EmptyDict
           /\ pc = "done" \/ ENABLED Next
           /\ RunEnded => \A k \in DOMAIN datasets :
                              log[k] \in {"missing", "read_csv", "read_excel"}
    /\ pc = "aborted" => \A k \in DOMAIN datasets : log[k] # "unvisited"

\* The target file was unreadable for both datasets and main completed.
TargetFailureIsCaughtWitness ==
    /\ excel_file.raised
    /\ pc = "done"
    /\ log = <<"read_excel", "read_excel">>

Keys(seq) == {seq[k] : k \in DOMAIN seq}

\* C10: in every call, the key sets of the cached matches, of the fuzzy
\* matches and of the resolver-derived mapping are pairwise disjoint.
TierKeysDisjoint ==
    /\ DOMAIN frame.cached_matches \cap DOMAIN frame.fuzzy_matches = {}
    /\ DOMAIN frame.cached_matches \cap DOMAIN frame.ollama_mapping = {}
    /\ DOMAIN frame.fuzzy_matches \cap DOMAIN frame.ollama_mapping = {}

\* C10, amended: in every call, the key sets of the cached matches and of the
\* fuzzy matches are disjoint, and the names the resolver is asked about are
\* in neither; the keys of the resolver-derived mapping are whatever the
\* resolver answers, and are disjoint from the other two when they are among
\* the names asked about.
AskedKeysDisjoint ==
    /\ DOMAIN frame.cached_matches \cap DOMAIN frame.fuzzy_matches = {}
    /\ Keys(frame.still_unmatched)
           \cap (DOMAIN frame.cached_matches \cup DOMAIN frame.fuzzy_matches) = {}
    /\ \A k \in DOMAIN frame.requests : Keys(frame.requests[k]) \subseteq Keys(frame.still_unmatched)
    /\ DOMAIN frame.ollama_mapping \subseteq Keys(frame.still_unmatched) => TierKeysDisjoint

\* A call in which each of the three tiers resolved a name.
AskedKeysDisjointWitness ==
    /\ Merged
    /\ frame.cached_matches # EmptyDict
    /\ frame.fuzzy_matches # EmptyDict
    /\ frame.ollama_mapping # EmptyDict
    /\ DOMAIN frame.ollama_mapping \subseteq Keys(frame.still_unmatched)
    /\ Cardinality(DOMAIN frame.final_mapping) = 3

====
